---- MODULE Spec2Model ----
(***************************************************************************)
(* State-machine model of ldap-client.go: one LDAPClient, the connections  *)
(* it dials, and the calls made on it.  Every call on the protocol library *)
(* (Dial, DialTLS, StartTLS, Bind, Search, Close) is one step, and its     *)
(* outcome is chosen by the environment (the network and the directory).   *)
(***************************************************************************)
EXTENDS Integers, Sequences, FiniteSets, TLC

(* ---- bounds of the model ---- *)
MaxEntries == 2
MaxDials == 2

(* ---- program constants ---- *)
RetryStart == 3
RetryLimit == 3

(* ---- input domains ---- *)
Threads == {1, 2}
SeqCallers == {1}
Usernames == {"alice", "bob"}
Passwords == {"pw1", "pw2"}
AttrLists == {<<>>, <<"cn", "mail">>}
Credentials == {<<"", "">>, <<"cn=admin", "">>, <<"cn=admin", "secret">>}
SearchErrors == {"search: timeout", "search: busy"}
BindErrorMsg == "bind: invalid credentials"
DialErrorMsg == "dial: connection refused"
TLSErrorMsg == "starttls: failed"
ClosedErrorMsg == "ldap: connection closed"
NotFoundMsg == "User does not exist"
TooManyMsg == "Too many entries returned"
NoError == "nil"

(* the entries the directory can answer with: attribute name -> values *)
EntryAlice == [DN |-> "uid=alice,dc=x", Attributes |-> [a \in {"cn", "mail"} |->
                 IF a = "cn" THEN <<"Alice", "Al">> ELSE <<"alice@x">>]]
EntryBob == [DN |-> "uid=bob,dc=x", Attributes |-> [a \in {"mail"} |-> <<"bob@x">>]]
Entries == {EntryAlice, EntryBob}

RECURSIVE SeqsUpTo(_, _)
SeqsUpTo(S, n) ==
    IF n = 0 THEN {<<>>}
    ELSE LET shorter == SeqsUpTo(S, n - 1)
         IN  shorter \cup {Append(s, x) : s \in {q \in shorter : Len(q) = n - 1}, x \in S}

SearchResults == SeqsUpTo(Entries, MaxEntries)

VARIABLES
    lc,      \* the LDAPClient: configuration fields and Conn (0 = nil, else a connection id)
    conns,   \* the connections dialed so far: conns[id] = [open, tls, bound]
    dials,   \* number of Dial / DialTLS calls made so far
    th       \* per caller: position in the running method, its locals and its result

vars == <<lc, conns, dials, th>>

NilResult == [auth |-> FALSE, isNil |-> TRUE, user |-> <<>>, list |-> <<>>, err |-> NoError]

IdleThread ==
    [pc |-> "idle", op |-> "none", username |-> "", password |-> "",
     l |-> 0, reused |-> FALSE, connAtCall |-> 0, dialsAtCall |-> 0,
     req |-> [filter |-> <<>>, attrs |-> <<>>],
     sr |-> <<>>, err |-> NoError, retry |-> 0, userDN |-> "", user |-> <<>>,
     events |-> <<>>, result |-> NilResult]

(* one call on the protocol library (or one sleep), as observed by the caller:
   k the kind, ok its outcome, err its error, dn/pw the arguments of a bind,
   as the identity the session was bound as when a search was issued,
   d the seconds of a sleep *)
Ev(k, ok, err, dn, pw, as, d) ==
    [k |-> k, ok |-> ok, err |-> err, dn |-> dn, pw |-> pw, as |-> as, d |-> d]

DialEv(ok, e) == Ev("dial", ok, e, "", "", "", 0)
StartTLSEv(ok, e) == Ev("starttls", ok, e, "", "", "", 0)
BindEv(dn, pw, ok, e) == Ev("bind", ok, e, dn, pw, "", 0)
SearchEv(ok, e, as) == Ev("search", ok, e, "", "", as, 0)
SleepEv(d) == Ev("sleep", TRUE, NoError, "", "", "", d)

Init ==
    /\ \E ssl \in BOOLEAN, cred \in Credentials, attrs \in AttrLists :
          lc = [Conn |-> 0, UseSSL |-> ssl, BindDN |-> cred[1], BindPassword |-> cred[2],
                UserFilter |-> "(uid=%s)", GroupFilter |-> "(memberUid=%s)",
                Base |-> "dc=x", Attributes |-> attrs]
    /\ conns = <<>>
    /\ dials = 0
    /\ th = [t \in Threads |-> IdleThread]

(* ---- helpers ---- *)
Range(s) == {s[i] : i \in 1..Len(s)}

Log(t, e) == Append(th[t].events, e)

Returned(t) == th[t].pc = "done"

CanCall(t) == th[t].pc \in {"idle", "done"}

(* fmt.Sprintf(template, term) with a single %s verb: the template and the term
   substituted into it *)
Sprintf(template, term) == <<template, term>>

(* ---- Connect ---- *)
ConnIsNil_AlwaysDial == TRUE

ConnIsNil == lc.Conn = 0

AfterConnect_BindFirst(op) ==
    CASE op = "Connect" -> "done"
      [] OTHER -> "bind_priv"

(* where a method continues after its Connect returned nil *)
AfterConnect(op) ==
    CASE op = "Connect" -> "done"
      [] op = "Authenticate" -> "bind_priv"
      [] OTHER -> "search"

(* what a method returns when its Connect failed *)
ConnectFailed(op, e) == [NilResult EXCEPT !.err = e]

(* entry of a method that starts with lc.Connect(): the lc.Conn == nil test *)
Begin(t, op, u, p) ==
    /\ CanCall(t)
    /\ th' = [th EXCEPT ![t] =
                [IdleThread EXCEPT
                   !.op = op, !.username = u, !.password = p,
                   !.connAtCall = lc.Conn, !.dialsAtCall = dials,
                   !.reused = ~ConnIsNil,
                   !.pc = IF ConnIsNil THEN "dial" ELSE AfterConnect(op)]]
    /\ UNCHANGED <<lc, conns, dials>>

Connect(t) == Begin(t, "Connect", "", "")

Dial_StoresEarly(t) ==
    /\ th[t].pc = "dial"
    /\ dials < MaxDials
    /\ dials' = dials + 1
    /\ \/ /\ th' = [th EXCEPT ![t].pc = "done",
                              ![t].events = Log(t, DialEv(FALSE, DialErrorMsg)),
                              ![t].err = DialErrorMsg,
                              ![t].result = ConnectFailed(th[t].op, DialErrorMsg)]
          /\ UNCHANGED <<lc, conns>>
       \/ /\ conns' = Append(conns, [open |-> TRUE, tls |-> lc.UseSSL, bound |-> ""])
          /\ th' = [th EXCEPT ![t].pc = IF lc.UseSSL THEN "store" ELSE "starttls",
                              ![t].events = Log(t, DialEv(TRUE, NoError)),
                              ![t].l = Len(conns) + 1]
          /\ lc' = [lc EXCEPT !.Conn = Len(conns) + 1]

(* ldap.Dial / ldap.DialTLS *)
Dial(t) ==
    /\ th[t].pc = "dial"
    /\ dials < MaxDials
    /\ dials' = dials + 1
    /\ \/ /\ th' = [th EXCEPT ![t].pc = "done",
                              ![t].events = Log(t, DialEv(FALSE, DialErrorMsg)),
                              ![t].err = DialErrorMsg,
                              ![t].result = ConnectFailed(th[t].op, DialErrorMsg)]
          /\ UNCHANGED <<lc, conns>>
       \/ /\ conns' = Append(conns, [open |-> TRUE, tls |-> lc.UseSSL, bound |-> ""])
          /\ th' = [th EXCEPT ![t].pc = IF lc.UseSSL THEN "store" ELSE "starttls",
                              ![t].events = Log(t, DialEv(TRUE, NoError)),
                              ![t].l = Len(conns) + 1]
          /\ UNCHANGED lc

(* l.StartTLS: on failure the library may or may not have closed l *)
StartTLS(t) ==
    /\ th[t].pc = "starttls"
    /\ \/ /\ \E closed \in BOOLEAN :
                conns' = [conns EXCEPT ![th[t].l].open = @ /\ ~closed]
          /\ th' = [th EXCEPT ![t].pc = "done",
                              ![t].events = Log(t, StartTLSEv(FALSE, TLSErrorMsg)),
                              ![t].err = TLSErrorMsg,
                              ![t].result = ConnectFailed(th[t].op, TLSErrorMsg)]
       \/ /\ conns' = [conns EXCEPT ![th[t].l].tls = TRUE]
          /\ th' = [th EXCEPT ![t].pc = "store",
                              ![t].events = Log(t, StartTLSEv(TRUE, NoError))]
    /\ UNCHANGED <<lc, dials>>

StoreConn_ClosesOld(t) ==
    /\ th[t].pc = "store"
    /\ lc' = [lc EXCEPT !.Conn = th[t].l]
    /\ conns' = IF lc.Conn # 0 THEN [conns EXCEPT ![lc.Conn].open = FALSE] ELSE conns
    /\ th' = [th EXCEPT ![t].pc = AfterConnect(th[t].op),
                        ![t].result = IF th[t].op = "Connect" THEN NilResult ELSE @]
    /\ UNCHANGED dials

(* lc.Conn = l; return nil *)
StoreConn(t) ==
    /\ th[t].pc = "store"
    /\ lc' = [lc EXCEPT !.Conn = th[t].l]
    /\ th' = [th EXCEPT ![t].pc = AfterConnect(th[t].op),
                        ![t].result = IF th[t].op = "Connect" THEN NilResult ELSE @]
    /\ UNCHANGED <<conns, dials>>

(* ---- Close ---- *)
Close_NoNilCheck(t) ==
    /\ CanCall(t)
    /\ conns' = IF lc.Conn # 0 THEN [conns EXCEPT ![lc.Conn].open = FALSE] ELSE conns
    /\ th' = [th EXCEPT ![t] =
                [IdleThread EXCEPT !.op = "Close", !.pc = "done",
                   !.connAtCall = lc.Conn, !.dialsAtCall = dials,
                   !.result = IF lc.Conn = 0
                              THEN [NilResult EXCEPT !.err = "panic: nil pointer dereference"]
                              ELSE NilResult]]
    /\ UNCHANGED <<lc, dials>>

Close(t) ==
    /\ CanCall(t)
    /\ conns' = IF lc.Conn # 0 THEN [conns EXCEPT ![lc.Conn].open = FALSE] ELSE conns
    /\ th' = [th EXCEPT ![t] = [IdleThread EXCEPT !.op = "Close", !.pc = "done",
                                   !.connAtCall = lc.Conn, !.dialsAtCall = dials]]
    /\ UNCHANGED <<lc, dials>>

(* ---- the protocol library's entry accessors ---- *)
(* Entry.GetAttributeValues: the values of the named attribute, none if absent *)
GetAttributeValues(entry, attr) ==
    IF attr \in DOMAIN entry.Attributes THEN entry.Attributes[attr] ELSE <<>>

(* Entry.GetAttributeValue: the first value of the named attribute, "" if none *)
GetAttributeValue(entry, attr) ==
    LET values == GetAttributeValues(entry, attr)
    IN  IF Len(values) = 0 THEN "" ELSE values[1]

(* for _, attr := range lc.Attributes { user[attr] = entry.GetAttributeValue(attr) } *)
RECURSIVE FillUser(_, _, _, _)
FillUser(user, attrs, i, entry) ==
    IF i > Len(attrs) THEN user
    ELSE FillUser([a \in (DOMAIN user) \cup {attrs[i]} |->
                      IF a = attrs[i] THEN GetAttributeValue(entry, attrs[i]) ELSE user[a]],
                  attrs, i + 1, entry)

UserOf(entry) == FillUser(<<>>, lc.Attributes, 1, entry)

(* ---- Search on the stored session ---- *)
SearchFailures == IF conns[lc.Conn].open THEN SearchErrors ELSE {ClosedErrorMsg}

SearchAnswers == IF conns[lc.Conn].open THEN SearchResults ELSE {}

(* lc.Conn.Search(searchRequest): the environment answers with entries or an error *)
Search(t, req, pcNext, retry) ==
    /\ \/ \E e \in SearchFailures :
             th' = [th EXCEPT ![t].pc = pcNext, ![t].sr = <<>>, ![t].err = e,
                              ![t].req = req,
                              ![t].retry = retry,
                              ![t].events = Log(t, SearchEv(FALSE, e, conns[lc.Conn].bound))]
       \/ \E r \in SearchAnswers :
             th' = [th EXCEPT ![t].pc = pcNext, ![t].sr = r, ![t].err = NoError,
                              ![t].req = req,
                              ![t].retry = retry,
                              ![t].events = Log(t, SearchEv(TRUE, NoError, conns[lc.Conn].bound))]
    /\ UNCHANGED <<lc, conns, dials>>

(* ldap.NewSearchRequest(lc.Base, ScopeWholeSubtree, NeverDerefAliases, 0, 0, false,
   filter, attributes, nil) *)
NewSearchRequest(filter, attributes) ==
    [base |-> lc.Base, filter |-> filter, attrs |-> attributes]

RequestOf(op, term) ==
    CASE op = "SearchUser" -> NewSearchRequest(Sprintf(lc.UserFilter, term), lc.Attributes)
      [] op = "FindUsers" -> NewSearchRequest(Sprintf(lc.UserFilter, term), lc.Attributes)
      [] op = "GetGroupsOfUser" -> NewSearchRequest(Sprintf(lc.GroupFilter, term), <<"cn">>)
      [] OTHER -> NewSearchRequest(Sprintf(lc.UserFilter, term), Append(lc.Attributes, "dn"))

(* ---- the three methods with a retry loop ---- *)
SearchUser(t) == \E u \in Usernames : Begin(t, "SearchUser", u, "")

GetGroupsOfUser(t) == \E u \in Usernames : Begin(t, "GetGroupsOfUser", u, "")

FindUsers(t) == \E u \in Usernames : Begin(t, "FindUsers", u, "")

(* sr, err := lc.Conn.Search(searchRequest); retry := 3 *)
FirstSearch(t) ==
    /\ th[t].pc = "search"
    /\ Search(t, RequestOf(th[t].op, th[t].username), "loop", RetryStart)

(* for err != nil && retry <= 3 *)
RetryCond(err, retry) == err # NoError /\ retry <= RetryLimit

(* loop body, first statement: sr, err = lc.Conn.Search(searchRequest) *)
RetrySearch(t) ==
    /\ th[t].pc = "loop"
    /\ RetryCond(th[t].err, th[t].retry)
    /\ Search(t, th[t].req, "sleep", th[t].retry)

(* loop body, rest: log.Printf; time.Sleep(time.Second * retry); retry++ *)
Sleep(t) ==
    /\ th[t].pc = "sleep"
    /\ th' = [th EXCEPT ![t].pc = "loop",
                        ![t].events = Log(t, SleepEv(th[t].retry)),
                        ![t].retry = @ + 1]
    /\ UNCHANGED <<lc, conns, dials>>

ErrResult(e) == [NilResult EXCEPT !.err = e]

SearchUserTooMany_Never(sr) == FALSE

SearchUserTooMany(sr) == Len(sr) > 1

(* SearchUser after the loop *)
SearchUserResult(sr, err) ==
    IF err # NoError THEN ErrResult(err)
    ELSE IF Len(sr) < 1 THEN ErrResult(NotFoundMsg)
    ELSE IF SearchUserTooMany(sr) THEN ErrResult(TooManyMsg)
    ELSE [NilResult EXCEPT !.isNil = FALSE, !.user = UserOf(sr[1])]

(* for _, entry := range sr.Entries { groups = append(groups, entry.GetAttributeValue("cn")) } *)
RECURSIVE AppendGroups(_, _, _)
AppendGroups(groups, sr, i) ==
    IF i > Len(sr) THEN groups
    ELSE AppendGroups(Append(groups, GetAttributeValue(sr[i], "cn")), sr, i + 1)

GroupsOf_SkipUnnamed(sr) == SelectSeq(AppendGroups(<<>>, sr, 1), LAMBDA g : g # "")

GroupsOf(sr) == AppendGroups(<<>>, sr, 1)

(* GetGroupsOfUser after the loop *)
GetGroupsOfUserResult(sr, err) ==
    IF err # NoError THEN ErrResult(err)
    ELSE [NilResult EXCEPT !.isNil = FALSE, !.list = GroupsOf(sr)]

(* for _, ldap_user := range sr.Entries { ...; users = append(users, user) } *)
RECURSIVE AppendUsers(_, _, _)
AppendUsers(users, sr, i) ==
    IF i > Len(sr) THEN users
    ELSE AppendUsers(Append(users, UserOf(sr[i])), sr, i + 1)

UsersOf_FirstOnly(sr) == <<UserOf(sr[1])>>

UsersOf(sr) == AppendUsers(<<>>, sr, 1)

(* FindUsers after the loop *)
FindUsersResult(sr, err) ==
    IF err # NoError THEN ErrResult(err)
    ELSE IF Len(sr) < 1 THEN ErrResult(NotFoundMsg)
    ELSE [NilResult EXCEPT !.isNil = FALSE, !.list = UsersOf(sr)]

ResultOf(op, sr, err) ==
    CASE op = "SearchUser" -> SearchUserResult(sr, err)
      [] op = "GetGroupsOfUser" -> GetGroupsOfUserResult(sr, err)
      [] OTHER -> FindUsersResult(sr, err)

(* loop exit and the rest of the method *)
Finish(t) ==
    /\ th[t].pc = "loop"
    /\ ~RetryCond(th[t].err, th[t].retry)
    /\ th' = [th EXCEPT ![t].pc = "done",
                        ![t].result = ResultOf(th[t].op, th[t].sr, th[t].err)]
    /\ UNCHANGED <<lc, conns, dials>>

(* ---- Authenticate ---- *)
Authenticate(t) ==
    \E u \in Usernames, p \in Passwords : Begin(t, "Authenticate", u, p)

(* lc.Conn.Bind(dn, password): the directory accepts or rejects; a successful bind
   makes dn the identity of the session *)
BindAccepted(t, dn, pw) ==
    /\ conns[lc.Conn].open
    /\ conns' = [conns EXCEPT ![lc.Conn].bound = dn]

BindRejected(t, dn, pw) == UNCHANGED conns

BindFailure == IF conns[lc.Conn].open THEN BindErrorMsg ELSE ClosedErrorMsg

FirstBindConfigured_Never == FALSE

(* if lc.BindDN != "" && lc.BindPassword != "", before the search *)
FirstBindConfigured == lc.BindDN # "" /\ lc.BindPassword # ""

RebindConfigured_Never == FALSE

(* if lc.BindDN != "" && lc.BindPassword != "", after the credential check *)
RebindConfigured == lc.BindDN # "" /\ lc.BindPassword # ""

(* First bind with a read only user *)
AuthBindPriv(t) ==
    /\ th[t].pc = "bind_priv"
    /\ \/ /\ ~FirstBindConfigured
          /\ th' = [th EXCEPT ![t].pc = "auth_search"]
          /\ UNCHANGED conns
       \/ /\ FirstBindConfigured
          /\ BindAccepted(t, lc.BindDN, lc.BindPassword)
          /\ th' = [th EXCEPT ![t].pc = "auth_search",
                      ![t].events = Log(t, BindEv(lc.BindDN, lc.BindPassword, TRUE, NoError))]
       \/ /\ FirstBindConfigured
          /\ BindRejected(t, lc.BindDN, lc.BindPassword)
          /\ th' = [th EXCEPT ![t].pc = "done",
                      ![t].err = BindFailure,
                      ![t].events = Log(t, BindEv(lc.BindDN, lc.BindPassword, FALSE, BindFailure)),
                      ![t].result = ErrResult(BindFailure)]
    /\ UNCHANGED <<lc, dials>>

AuthTooMany_Never(sr) == FALSE

AuthTooMany(sr) == Len(sr) > 1

(* what Authenticate does with the answer of its search: 0 = return the error,
   1 = "User does not exist", 2 = "Too many entries returned", 3 = go on *)
AuthSearchCase(sr, err) ==
    IF err # NoError THEN 0
    ELSE IF Len(sr) < 1 THEN 1
    ELSE IF AuthTooMany(sr) THEN 2
    ELSE 3

AuthSearchError(c, err) ==
    CASE c = 0 -> err
      [] c = 1 -> NotFoundMsg
      [] OTHER -> TooManyMsg

AuthSearch_Retrying(t) ==
    /\ th[t].pc = "auth_search"
    /\ \E ok \in BOOLEAN :
        \E e \in (IF ok THEN {NoError} ELSE SearchFailures) :
         \E r \in (IF ok THEN SearchAnswers ELSE {<<>>}) :
            LET c == AuthSearchCase(r, e)
                ev == Log(t, SearchEv(ok, e, conns[lc.Conn].bound))
                again == c = 0 /\ Len(ev) < 4
            IN  th' = [th EXCEPT
                         ![t].req = RequestOf("Authenticate", th[t].username),
                         ![t].sr = r, ![t].err = e, ![t].events = ev,
                         ![t].pc = IF again THEN "auth_search"
                                   ELSE IF c = 3 THEN "bind_user" ELSE "done",
                         ![t].userDN = IF c = 3 THEN r[1].DN ELSE "",
                         ![t].user = IF c = 3 THEN UserOf(r[1]) ELSE <<>>,
                         ![t].result = IF c = 3 \/ again THEN @
                                       ELSE ErrResult(AuthSearchError(c, e))]
    /\ UNCHANGED <<lc, conns, dials>>

(* Search for the given username, then userDN and user of the single entry *)
AuthSearch(t) ==
    /\ th[t].pc = "auth_search"
    /\ \E ok \in BOOLEAN :
        \E e \in (IF ok THEN {NoError} ELSE SearchFailures) :
         \E r \in (IF ok THEN SearchAnswers ELSE {<<>>}) :
            LET c == AuthSearchCase(r, e)
                ev == Log(t, SearchEv(ok, e, conns[lc.Conn].bound))
            IN  th' = [th EXCEPT
                         ![t].req = RequestOf("Authenticate", th[t].username),
                         ![t].sr = r, ![t].err = e, ![t].events = ev,
                         ![t].pc = IF c = 3 THEN "bind_user" ELSE "done",
                         ![t].userDN = IF c = 3 THEN r[1].DN ELSE "",
                         ![t].user = IF c = 3 THEN UserOf(r[1]) ELSE <<>>,
                         ![t].result = IF c = 3 THEN @ ELSE ErrResult(AuthSearchError(c, e))]
    /\ UNCHANGED <<lc, conns, dials>>

UserBindFailed_NoUser(user, e) == [NilResult EXCEPT !.err = e]

(* return false, user, err *)
UserBindFailed(user, e) ==
    [auth |-> FALSE, isNil |-> FALSE, user |-> user, list |-> <<>>, err |-> e]

RebindFailed_NotAuthenticated(user, e) ==
    [auth |-> FALSE, isNil |-> FALSE, user |-> user, list |-> <<>>, err |-> e]

(* return true, user, err *)
RebindFailed(user, e) ==
    [auth |-> TRUE, isNil |-> FALSE, user |-> user, list |-> <<>>, err |-> e]

(* return true, user, nil *)
Authenticated(user) ==
    [auth |-> TRUE, isNil |-> FALSE, user |-> user, list |-> <<>>, err |-> NoError]

(* Bind as the user to verify their password *)
AuthBindUser(t) ==
    /\ th[t].pc = "bind_user"
    /\ \/ /\ BindAccepted(t, th[t].userDN, th[t].password)
          /\ th' = [th EXCEPT ![t].pc = "rebind", ![t].err = NoError,
                      ![t].events = Log(t, BindEv(th[t].userDN, th[t].password, TRUE, NoError))]
       \/ /\ BindRejected(t, th[t].userDN, th[t].password)
          /\ th' = [th EXCEPT ![t].pc = "done", ![t].err = BindFailure,
                      ![t].events = Log(t, BindEv(th[t].userDN, th[t].password, FALSE, BindFailure)),
                      ![t].result = UserBindFailed(th[t].user, BindFailure)]
    /\ UNCHANGED <<lc, dials>>

(* Rebind as the read only user for any further queries *)
AuthRebind(t) ==
    /\ th[t].pc = "rebind"
    /\ \/ /\ ~RebindConfigured
          /\ th' = [th EXCEPT ![t].pc = "done", ![t].result = Authenticated(th[t].user)]
          /\ UNCHANGED conns
       \/ /\ RebindConfigured
          /\ BindAccepted(t, lc.BindDN, lc.BindPassword)
          /\ th' = [th EXCEPT ![t].pc = "done",
                      ![t].events = Log(t, BindEv(lc.BindDN, lc.BindPassword, TRUE, NoError)),
                      ![t].result = Authenticated(th[t].user)]
       \/ /\ RebindConfigured
          /\ BindRejected(t, lc.BindDN, lc.BindPassword)
          /\ th' = [th EXCEPT ![t].pc = "done", ![t].err = BindFailure,
                      ![t].events = Log(t, BindEv(lc.BindDN, lc.BindPassword, FALSE, BindFailure)),
                      ![t].result = RebindFailed(th[t].user, BindFailure)]
    /\ UNCHANGED <<lc, dials>>

Next ==
    \E t \in SeqCallers :
        \/ Connect(t)
        \/ Dial(t)
        \/ StartTLS(t)
        \/ StoreConn(t)
        \/ Close(t)
        \/ SearchUser(t)
        \/ GetGroupsOfUser(t)
        \/ FindUsers(t)
        \/ FirstSearch(t)
        \/ RetrySearch(t)
        \/ Sleep(t)
        \/ Finish(t)
        \/ Authenticate(t)
        \/ AuthBindPriv(t)
        \/ AuthSearch(t)
        \/ AuthBindUser(t)
        \/ AuthRebind(t)

Spec == Init /\ [][Next]_vars

(* ---- two callers on one client, without synchronization ---- *)
(* each caller makes one Authenticate call, caller 1 for alice and caller 2 for bob;
   the steps of the two calls interleave *)
ConcAuthenticate(t) ==
    /\ th[t].pc = "idle"
    /\ Begin(t, "Authenticate", IF t = 1 THEN "alice" ELSE "bob", "pw1")

NextConc ==
    \E t \in Threads :
        \/ ConcAuthenticate(t)
        \/ Dial(t)
        \/ StartTLS(t)
        \/ StoreConn(t)
        \/ AuthBindPriv(t)
        \/ AuthSearch(t)
        \/ AuthBindUser(t)
        \/ AuthRebind(t)

SpecConc == Init /\ [][NextConc]_vars

(* ======================= properties ======================= *)
Events(t) == th[t].events

KindAt(t, k) == {i \in 1..Len(Events(t)) : Events(t)[i].k = k}

RetryOps == {"SearchUser", "GetGroupsOfUser", "FindUsers"}

PrivConfigured == lc.BindDN # "" /\ lc.BindPassword # ""

(* the mapping the specification promises for an entry: one key per configured
   attribute, the entry's first value of it, "" when the entry lacks it *)
ExpectedUser(entry) ==
    [a \in Range(lc.Attributes) |->
        IF a \in DOMAIN entry.Attributes /\ entry.Attributes[a] # <<>>
        THEN Head(entry.Attributes[a]) ELSE ""]

(* the call of t issued a search that the directory answered (th[t].sr is the answer) *)
SearchSucceeded(t) == \E i \in KindAt(t, "search") : Events(t)[i].ok

(* the index of the credential bind of an Authenticate call: the bind issued right
   after its answered search; 0 if there is none *)
UserBindAt(t) ==
    IF \E i \in KindAt(t, "search") : Events(t)[i].ok /\ i + 1 \in KindAt(t, "bind")
    THEN 1 + CHOOSE i \in KindAt(t, "search") : Events(t)[i].ok /\ i + 1 \in KindAt(t, "bind")
    ELSE 0

(* C1: for a username with exactly one matching entry, Authenticate binds as that
   entry's DN with the supplied password; if the directory accepts, it returns
   authenticated = true with the entry's attributes; if the directory rejects, it
   returns authenticated = false, the same non-nil attribute mapping and the bind error *)
C1_AuthenticateByPassword ==
    \A t \in Threads :
        (Returned(t) /\ th[t].op = "Authenticate" /\ SearchSucceeded(t) /\ Len(th[t].sr) = 1) =>
            LET j == UserBindAt(t)
                r == th[t].result
            IN  /\ j # 0
                /\ Events(t)[j].dn = th[t].sr[1].DN
                /\ Events(t)[j].pw = th[t].password
                /\ ~r.isNil
                /\ r.user = ExpectedUser(th[t].sr[1])
                /\ Events(t)[j].ok => r.auth
                /\ ~Events(t)[j].ok =>
                      /\ ~r.auth
                      /\ r.err = Events(t)[j].err
                      /\ r.err \notin {NoError, NotFoundMsg, TooManyMsg}

C1_Witness ==
    \E t \in Threads :
        /\ Returned(t) /\ th[t].op = "Authenticate"
        /\ Len(th[t].sr) = 1 /\ th[t].sr[1] = EntryBob
        /\ UserBindAt(t) # 0 /\ ~Events(t)[UserBindAt(t)].ok
        /\ ~th[t].result.auth /\ ~th[t].result.isNil
        /\ lc.Attributes = <<"cn", "mail">>
        /\ th[t].result.user["mail"] = "bob@x" /\ th[t].result.user["cn"] = ""
        /\ th[t].result.err = BindErrorMsg

(* C2: within one Authenticate call: a failed connect is followed by no bind and no
   search; a failed privileged bind by no search; a search that errors or matches
   zero or several entries by no bind, and the call returns (false, nil, error);
   authenticated = true only after a successful bind with the single entry's DN and
   the supplied password in that call *)
C2_AuthenticateStepsOrdered ==
    \A t \in Threads : th[t].op = "Authenticate" =>
        LET ev == Events(t)
            searches == KindAt(t, "search")
            binds == KindAt(t, "bind")
            r == th[t].result
        IN  /\ \A i \in KindAt(t, "dial") \cup KindAt(t, "starttls") :
                  ~ev[i].ok => (searches = {} /\ binds = {})
            /\ \A i \in binds :
                  (~ev[i].ok /\ \A s \in searches : s > i) => searches = {}
            /\ \A i \in searches :
                  (~ev[i].ok \/ Len(th[t].sr) # 1) =>
                      /\ \A b \in binds : b < i
                      /\ Returned(t)
                      /\ ~r.auth /\ r.isNil /\ r.err # NoError
            /\ (Returned(t) /\ r.auth) =>
                  \E i \in searches :
                      /\ ev[i].ok /\ Len(th[t].sr) = 1
                      /\ i + 1 \in binds
                      /\ ev[i + 1].ok
                      /\ ev[i + 1].dn = th[t].sr[1].DN
                      /\ ev[i + 1].pw = th[t].password

C2_Witness ==
    \E t \in Threads :
        /\ Returned(t) /\ th[t].op = "Authenticate"
        /\ SearchSucceeded(t) /\ Len(th[t].sr) = 2
        /\ PrivConfigured
        /\ Len(Events(t)) >= 2 /\ Events(t)[Len(Events(t))].k = "search"
        /\ th[t].result = [NilResult EXCEPT !.err = TooManyMsg]

(* C3: when the credential bind succeeds and the rebind as the privileged identity
   fails, Authenticate returns authenticated = true, the user's attributes and the
   rebind error *)
C3_RebindFailureKeepsAuthenticated ==
    \A t \in Threads :
        LET ev == Events(t)
            n == Len(ev)
            r == th[t].result
        IN  (/\ Returned(t) /\ th[t].op = "Authenticate"
             /\ n >= 3
             /\ ev[n - 2].k = "search" /\ ev[n - 2].ok
             /\ ev[n - 1].k = "bind" /\ ev[n - 1].ok
             /\ ev[n].k = "bind" /\ ~ev[n].ok) =>
                /\ ev[n].dn = lc.BindDN
                /\ r.auth
                /\ ~r.isNil
                /\ r.user = ExpectedUser(th[t].sr[1])
                /\ r.err = ev[n].err
                /\ r.err # NoError

C3_Witness ==
    \E t \in Threads :
        LET ev == Events(t)
            n == Len(ev)
        IN  /\ Returned(t) /\ th[t].op = "Authenticate"
            /\ n >= 3
            /\ ev[n - 1].k = "bind" /\ ev[n - 1].ok /\ ev[n - 1].dn = EntryAlice.DN
            /\ ev[n].k = "bind" /\ ~ev[n].ok /\ ev[n].dn = lc.BindDN
            /\ th[t].result.auth /\ th[t].result.err = BindErrorMsg

(* C4: with privileged bind credentials configured, whenever Authenticate has
   returned authenticated = true and no error, the session's most recent successful
   bind is the privileged identity *)
C4_SessionLeftPrivileged ==
    \A t \in Threads :
        (/\ PrivConfigured
         /\ Returned(t) /\ th[t].op = "Authenticate"
         /\ th[t].result.auth /\ th[t].result.err = NoError) =>
            /\ lc.Conn # 0
            /\ conns[lc.Conn].bound = lc.BindDN
            /\ conns[lc.Conn].bound # th[t].sr[1].DN

C4_Witness ==
    \E t \in Threads :
        /\ PrivConfigured
        /\ Returned(t) /\ th[t].op = "Authenticate"
        /\ th[t].result.auth /\ th[t].result.err = NoError
        /\ UserBindAt(t) # 0 /\ Events(t)[UserBindAt(t)].ok
        /\ conns[lc.Conn].bound = "cn=admin"

(* C5: SearchUser's result is decided by the number of entries of the answered
   search: zero gives "User does not exist" and no mapping, several give "Too many
   entries returned" and no mapping, one gives the entry's mapping (one key per
   configured attribute, "" for a missing attribute) and no error *)
C5_SearchUserByEntryCount ==
    \A t \in Threads :
        (Returned(t) /\ th[t].op = "SearchUser" /\ SearchSucceeded(t)) =>
            LET r == th[t].result
                n == Len(th[t].sr)
            IN  /\ ~r.auth
                /\ n = 0 => (r.isNil /\ r.err = NotFoundMsg)
                /\ n > 1 => (r.isNil /\ r.err = TooManyMsg)
                /\ n = 1 => /\ ~r.isNil /\ r.err = NoError
                            /\ DOMAIN r.user = Range(lc.Attributes)
                            /\ r.user = ExpectedUser(th[t].sr[1])

C5_Witness ==
    \E t \in Threads :
        /\ Returned(t) /\ th[t].op = "SearchUser" /\ SearchSucceeded(t)
        /\ th[t].sr = <<EntryBob>>
        /\ lc.Attributes = <<"cn", "mail">>
        /\ th[t].result.err = NoError
        /\ th[t].result.user["cn"] = "" /\ th[t].result.user["mail"] = "bob@x"

(* C6: FindUsers fails with "User does not exist" when the answered search holds no
   entry; otherwise it returns, with no error, one mapping per entry in the order of
   the answer *)
C6_FindUsersAllEntries ==
    \A t \in Threads :
        (Returned(t) /\ th[t].op = "FindUsers" /\ SearchSucceeded(t)) =>
            LET r == th[t].result
                sr == th[t].sr
            IN  /\ Len(sr) = 0 => (r.isNil /\ r.err = NotFoundMsg)
                /\ Len(sr) > 0 => /\ ~r.isNil /\ r.err = NoError
                                  /\ Len(r.list) = Len(sr)
                                  /\ \A i \in 1..Len(sr) : r.list[i] = ExpectedUser(sr[i])

C6_Witness ==
    \E t \in Threads :
        /\ Returned(t) /\ th[t].op = "FindUsers" /\ SearchSucceeded(t)
        /\ th[t].sr = <<EntryBob, EntryAlice>>
        /\ lc.Attributes = <<"cn", "mail">>
        /\ th[t].result.err = NoError
        /\ Len(th[t].result.list) = 2
        /\ th[t].result.list[1]["mail"] = "bob@x"
        /\ th[t].result.list[2]["cn"] = "Alice"

(* C7: GetGroupsOfUser returns, with no error, the "cn" value of every entry of the
   answered search, one per entry and in the order of the answer; an answer with no
   entry gives an empty list and no error *)
C7_GroupsOnePerEntry ==
    \A t \in Threads :
        (Returned(t) /\ th[t].op = "GetGroupsOfUser" /\ SearchSucceeded(t)) =>
            LET r == th[t].result
                sr == th[t].sr
            IN  /\ r.err = NoError
                /\ ~r.isNil
                /\ Len(r.list) = Len(sr)
                /\ \A i \in 1..Len(sr) :
                      r.list[i] = IF "cn" \in DOMAIN sr[i].Attributes
                                  THEN Head(sr[i].Attributes["cn"]) ELSE ""

C7_Witness ==
    \E t \in Threads :
        /\ Returned(t) /\ th[t].op = "GetGroupsOfUser" /\ SearchSucceeded(t)
        /\ th[t].sr = <<>>
        /\ th[t].result.list = <<>> /\ ~th[t].result.isNil
        /\ th[t].result.err = NoError
(* C8: in SearchUser, GetGroupsOfUser and FindUsers a failing search is re-issued up
   to 3 more times (4 attempts at most); the call gives up only after the 4th attempt
   failed and then returns the error of the last attempt; otherwise it goes on with
   the answer of the attempt that succeeded *)
C8_RetryUpToThreeTimes ==
    \A t \in Threads : th[t].op \in RetryOps =>
        LET ev == Events(t)
            searches == KindAt(t, "search")
        IN  /\ Cardinality(searches) <= 4
            /\ (Returned(t) /\ searches # {} /\ ~SearchSucceeded(t)) =>
                  /\ Cardinality(searches) = 4
                  /\ \E i \in searches :
                        /\ \A j \in searches : j <= i
                        /\ th[t].result.err = ev[i].err
            /\ (Returned(t) /\ SearchSucceeded(t)) =>
                  th[t].result.err \in {NoError, NotFoundMsg, TooManyMsg}

(* C9: the k-th retry (k = 1, 2, 3) is immediately preceded by a wait of k seconds,
   and a wait happens only right after an attempt that failed *)
C9_BackoffBeforeRetry ==
    \A t \in Threads : th[t].op \in RetryOps =>
        LET ev == Events(t)
            searches == KindAt(t, "search")
        IN  /\ \A i \in searches :
                  LET k == Cardinality({j \in searches : j < i})
                  IN  k >= 1 => (ev[i - 1].k = "sleep" /\ ev[i - 1].d = k)
            /\ \A i \in KindAt(t, "sleep") :
                  i > 1 /\ ev[i - 1].k = "search" /\ ~ev[i - 1].ok

(* a call that found a session stored makes no dial and keeps that session *)
C10_StoredSessionReused ==
    \A t \in Threads :
        /\ (th[t].connAtCall # 0 /\ th[t].op # "none") =>
              /\ dials = th[t].dialsAtCall
              /\ lc.Conn = th[t].connAtCall
              /\ KindAt(t, "dial") = {}

(* C10: Connect is "connect if absent": once a session is stored, no later step of
   any call dials or replaces it, and a call that found a session stored returns
   with the dial count and the session it started with (two connects in succession
   make one dial) *)
C10_ConnectIfAbsent ==
    /\ []C10_StoredSessionReused
    /\ [][lc.Conn # 0 => (dials' = dials /\ lc'.Conn = lc.Conn /\ Len(conns') = Len(conns))]_vars

C10_Witness ==
    \E t \in Threads :
        /\ Returned(t) /\ th[t].op = "Connect"
        /\ th[t].connAtCall # 0 /\ lc.Conn = th[t].connAtCall
        /\ dials = 1
(* C11: after Close has returned the client holds no session, and no bind or search
   is ever issued on a session that was released *)
C11_CloseReleasesSession ==
    /\ \A t \in Threads : (Returned(t) /\ th[t].op = "Close") => lc.Conn = 0
    /\ \A t \in Threads : \A i \in KindAt(t, "bind") \cup KindAt(t, "search") :
          Events(t)[i].err # ClosedErrorMsg

(* C12: Close signals no error and changes neither lc.Conn nor the configuration; on
   a client that holds no session it changes nothing at all, and a Close directly
   after a Close leaves the client and its connections as the first one left them *)
C12_CloseSafeAndIdempotent ==
    [][\A t \in Threads :
          (CanCall(t) /\ th'[t].op = "Close" /\ th'[t].pc = "done") =>
              /\ lc' = lc
              /\ dials' = dials
              /\ th'[t].result.err = NoError
              /\ lc.Conn = 0 => conns' = conns
              /\ lc.Conn # 0 => ~conns'[lc.Conn].open
              /\ (Returned(t) /\ th[t].op = "Close") => conns' = conns]_vars

C12_Witness ==
    \E t \in Threads :
        /\ Returned(t) /\ th[t].op = "Close"
        /\ lc.Conn = 0 /\ conns = <<>> /\ dials = 0
        /\ th[t].result.err = NoError
(* C13: Authenticate issues its search at most once per call, exactly once in a call
   that returns attributes, and never sleeps; when that search fails the call returns
   (false, nil, that error) at once *)
C13_AuthenticateSearchesOnce ==
    \A t \in Threads : th[t].op = "Authenticate" =>
        LET ev == Events(t)
            searches == KindAt(t, "search")
        IN  /\ Cardinality(searches) <= 1
            /\ KindAt(t, "sleep") = {}
            /\ (Returned(t) /\ ~th[t].result.isNil) => Cardinality(searches) = 1
            /\ \A i \in searches :
                  ~ev[i].ok =>
                      /\ i = Len(ev)
                      /\ Returned(t)
                      /\ th[t].result = [NilResult EXCEPT !.err = ev[i].err]

C13_Witness ==
    \E t \in Threads :
        /\ Returned(t) /\ th[t].op = "Authenticate"
        /\ Cardinality(KindAt(t, "search")) = 1
        /\ Len(Events(t)) >= 2
        /\ Events(t)[Len(Events(t))].k = "search"
        /\ Events(t)[Len(Events(t))].err = "search: busy"
        /\ th[t].result.err = "search: busy" /\ th[t].result.isNil

(* C14: when the dial or the encryption upgrade of a call fails, the call issues
   nothing more and returns that error with no result, and the client holds no
   session; a call that finds no session dials *)
C14_ConnectFailureLeavesNoSession ==
    \A t \in Threads :
        LET ev == Events(t)
        IN  /\ \A i \in KindAt(t, "dial") \cup KindAt(t, "starttls") :
                  ~ev[i].ok =>
                      /\ i = Len(ev)
                      /\ KindAt(t, "bind") = {} /\ KindAt(t, "search") = {}
                      /\ Returned(t)
                      /\ lc.Conn = 0
                      /\ th[t].result = [NilResult EXCEPT !.err = ev[i].err]
            /\ (th[t].op \notin {"none", "Close"} /\ th[t].connAtCall = 0) =>
                  (th[t].pc = "dial" \/ KindAt(t, "dial") # {})

C14_Witness ==
    \E t \in Threads :
        /\ Returned(t) /\ th[t].op = "SearchUser"
        /\ th[t].dialsAtCall = 1 /\ th[t].connAtCall = 0 /\ dials = 2
        /\ Len(Events(t)) = 2
        /\ Events(t)[1].k = "dial" /\ Events(t)[1].ok
        /\ Events(t)[2].k = "starttls" /\ ~Events(t)[2].ok
        /\ lc.Conn = 0
        /\ th[t].result = [NilResult EXCEPT !.err = TLSErrorMsg]

(* a call of SearchUser, GetGroupsOfUser, FindUsers, Connect or Close issues no bind,
   and its searches run as the identity the session is bound as: the anonymous one
   when the call itself dialed the session *)
C15_SearchesIssueNoBind ==
    \A t \in Threads : th[t].op \in RetryOps \cup {"Connect", "Close"} =>
        /\ KindAt(t, "bind") = {}
        /\ \A i \in KindAt(t, "search") :
              /\ Events(t)[i].as = conns[lc.Conn].bound
              /\ th[t].connAtCall = 0 => Events(t)[i].as = ""

(* C15: SearchUser, GetGroupsOfUser and FindUsers never bind; the identity of a
   session changes only in a bind step of Authenticate, so these methods search as
   whatever the last bind left, anonymous on a fresh session *)
C15_OnlyAuthenticateBinds ==
    /\ []C15_SearchesIssueNoBind
    /\ [][(\E c \in DOMAIN conns : conns'[c].bound # conns[c].bound) =>
             \E t \in Threads : /\ th[t].op = "Authenticate"
                                /\ th[t].pc \in {"bind_priv", "bind_user", "rebind"}]_vars

C15_Witness ==
    \E t \in Threads :
        /\ PrivConfigured
        /\ Returned(t) /\ th[t].op = "FindUsers" /\ th[t].connAtCall = 0
        /\ \E i \in KindAt(t, "search") : Events(t)[i].ok /\ Events(t)[i].as = ""
        /\ conns[lc.Conn].bound = ""
(* C17: every connection that Connect dialed is, once that Connect has returned,
   either the session stored in the client or closed *)
C17_DialedConnStoredOrClosed ==
    \A c \in DOMAIN conns :
        conns[c].open =>
            \/ c = lc.Conn
            \/ \E t \in Threads : th[t].l = c /\ th[t].pc \in {"starttls", "store"}
(* the call of t has stored the connection it dialed *)
HasStored(t) ==
    /\ th[t].l # 0
    /\ th[t].pc \notin {"idle", "dial", "starttls", "store"}
    /\ \A i \in KindAt(t, "starttls") : Events(t)[i].ok

(* C16: with privileged credentials configured and two unsynchronized Authenticate
   calls, a search of one call runs under an identity other than the privileged one
   only because the other call interfered: the other call's credential bind as its
   end user overwrote the privileged bind, or the other call replaced the session *)
C16_BindStateRace ==
    \A t \in Threads : (PrivConfigured /\ th[t].op = "Authenticate") =>
        \A i \in KindAt(t, "search") :
            LET as == Events(t)[i].as
            IN  \/ as = lc.BindDN
                \/ \E u \in Threads \ {t} :
                      /\ th[u].userDN = as
                      /\ \E j \in KindAt(u, "bind") :
                            /\ Events(u)[j].ok
                            /\ Events(u)[j].dn = as
                            /\ Events(u)[j].pw = th[u].password
                \/ as = "" /\ Len(conns) >= 2

(* a search of one call ran while the one shared session was bound as the other
   call's end user, the privileged bind of the first call having been overwritten;
   both calls nevertheless returned authenticated = true and no error *)
C16_Witness ==
    \E t \in Threads : \E u \in Threads \ {t} :
        /\ PrivConfigured
        /\ Len(conns) = 1 /\ lc.Conn = 1
        /\ Returned(t) /\ Returned(u)
        /\ th[t].op = "Authenticate" /\ th[u].op = "Authenticate"
        /\ th[u].userDN # "" /\ th[u].userDN # lc.BindDN
        /\ \E i \in KindAt(t, "search") : Events(t)[i].as = th[u].userDN
        /\ th[t].result.auth /\ th[t].result.err = NoError
        /\ th[u].result.auth /\ th[u].result.err = NoError
        /\ Events(t)[1].k = "bind" /\ Events(t)[1].ok /\ Events(t)[1].dn = lc.BindDN

(* C18: only a caller that saw no session dials, and two callers can both do so;
   when a caller stores its connection over a session another caller stored, the
   replaced session is left open *)
C18_CheckThenDialNotAtomic ==
    /\ Len(conns) <= Cardinality({t \in Threads : th[t].op # "none" /\ th[t].connAtCall = 0})
    /\ \A t \in Threads :
          (HasStored(t) /\ lc.Conn # th[t].l) =>
              /\ lc.Conn # 0
              /\ conns[th[t].l].open
              /\ \E u \in Threads \ {t} : th[u].l = lc.Conn /\ th[u].connAtCall = 0

C18_Witness ==
    \E t \in Threads : \E u \in Threads \ {t} :
        /\ th[t].connAtCall = 0 /\ th[u].connAtCall = 0
        /\ HasStored(t) /\ HasStored(u)
        /\ th[t].l # th[u].l
        /\ lc.Conn = th[u].l
        /\ Len(conns) = 2 /\ dials = 2
        /\ conns[th[t].l].open /\ conns[th[u].l].open
====
